---- MODULE Spec2Model ----
(***************************************************************************)
(* Model of the knowledge-base catalog (knowledge_bases.py) and of the     *)
(* multi-knowledge-base command line script (structure.py).                *)
(*                                                                         *)
(* A Python str is a sequence of one-character strings, so that lower(),   *)
(* strip(), split(","), len() and count("-") are computed character by     *)
(* character; a character outside ASCII is written by its Unicode name.    *)
(* A str-or-None argument is a record with a type tag t ("str" or          *)
(* "NoneType").  Objects live on a heap and are named by references, so    *)
(* that two lists can hold the same KnowledgeBase object.                  *)
(***************************************************************************)
EXTENDS Integers, Sequences, FiniteSets, TLC

VARIABLES
    heap,                     \* reference -> fields of a KnowledgeBase object
    KNOWLEDGE_BASES,          \* the module-level list (of references)
    KNOWLEDGE_BASES_BY_ID,    \* the module-level dict id -> reference
    KNOWLEDGE_BASES_BY_NAME,  \* the module-level dict lowercased name -> reference
    call,                     \* the catalog operation a caller has made, with its argument
    ret,                      \* what that call returned
    raised,                   \* the exception that call ended with ("" when it returned)
    stdout,                   \* the lines printed (by that call, or by the script)
    ncaller,                  \* number of changes a caller has made through a returned list
    pc,                       \* position of the script's __main__ block
    args,                     \* the script's command line
    knowledge_base_ids,       \* the script's variable of that name
    events,                   \* the calls the script has made to its collaborators, in order
    exit_code                 \* the script's exit status (-1 while running)

vars == <<heap, KNOWLEDGE_BASES, KNOWLEDGE_BASES_BY_ID, KNOWLEDGE_BASES_BY_NAME,
          call, ret, raised, stdout, ncaller, pc, args, knowledge_base_ids, events,
          exit_code>>

catalogVars == <<heap, KNOWLEDGE_BASES, KNOWLEDGE_BASES_BY_ID, KNOWLEDGE_BASES_BY_NAME>>
callVars    == <<call, ret, raised, stdout>>
mainVars    == <<pc, args, knowledge_base_ids, events, exit_code>>

---------------------------------------------------------------------------
(* Bounds of the model *)

\* largest number of comma-separated pieces in a selection string
MaxPieces == 3

\* largest number of changes a caller makes through a returned list
MaxCallerOps == 2

---------------------------------------------------------------------------
(* Python values *)

None == "None"

NoneValue == [t |-> "NoneType"]

Str(s) == [t |-> "str", v |-> s]

\* truth value of a str-or-None object
Truthy(x) == x.t = "str" /\ x.v # <<>>

UpperChars == <<"A", "B", "C", "D", "E", "F", "G", "H", "I", "J", "K", "L", "M", "N", "O", "P", "Q", "R", "S", "T", "U", "V", "W", "X", "Y", "Z">>

LowerChars == <<"a", "b", "c", "d", "e", "f", "g", "h", "i", "j", "k", "l", "m", "n", "o", "p", "q", "r", "s", "t", "u", "v", "w", "x", "y", "z">>

Whitespace == {" ", "\t"}

\* the lowercase letter of each uppercase letter
ToLower ==
    [c \in {UpperChars[i] : i \in 1..Len(UpperChars)} |->
        LowerChars[CHOOSE i \in 1..Len(UpperChars) : UpperChars[i] = c]]

lower_char(c) == IF c \in DOMAIN ToLower THEN ToLower[c] ELSE c

\* str.lower()
lower(s) == [i \in 1..Len(s) |-> lower_char(s[i])]

\* str.count(c) for a one-character c
count(s, c) == Cardinality({i \in 1..Len(s) : s[i] = c})

\* the characters of s from the first that is not whitespace
lstrip(s) ==
    LET keep == {i \in 1..Len(s) : s[i] \notin Whitespace}
    IN  IF keep = {} THEN <<>>
        ELSE SubSeq(s, CHOOSE i \in keep : \A j \in keep : i <= j, Len(s))

\* the characters of s up to the last that is not whitespace
rstrip(s) ==
    LET keep == {i \in 1..Len(s) : s[i] \notin Whitespace}
    IN  IF keep = {} THEN <<>>
        ELSE SubSeq(s, 1, CHOOSE i \in keep : \A j \in (i + 1)..Len(s) : j \notin keep)

\* str.strip()
strip(s) == rstrip(lstrip(s))

\* str.split(sep) for a one-character sep: the piece before the first
\* separator, then the pieces of what follows it; empty pieces included
RECURSIVE split(_, _)
split(s, sep) ==
    LET at == {i \in 1..Len(s) : s[i] = sep}
    IN  IF at = {} THEN <<s>>
        ELSE LET first == CHOOSE i \in at : \A j \in at : i <= j
             IN  <<SubSeq(s, 1, first - 1)>> \o split(SubSeq(s, first + 1, Len(s)), sep)

\* dict.get(key)
dict_get(d, key) == IF key \in DOMAIN d THEN d[key] ELSE None

---------------------------------------------------------------------------
(* knowledge_bases.py *)

Refs == {"kb1", "kb2", "kb3", "kb4", "kb5"}

\* the objects built by the five KnowledgeBase(...) calls
InitialHeap ==
    [r \in Refs |->
        CASE r = "kb1" ->
               [id         |-> <<"8", "b", "e", "6", "d", "f", "d", "9", "-", "e", "c", "a", "f", "-", "4", "e", "2", "b", "-", "8", "4", "1", "4", "-", "0", "1", "a", "e", "c", "b", "6", "7", "e", "1", "4", "7">>,
                name       |-> <<"B", "l", "o", "s", "s", "o", "m", " ", "A", "n", "a", "l", "y", "s", "i", "s">>,
                icon_url   |-> <<"i", "m", "a", "g", "e", "s", "/", "l", "o", "g", "o", "s", "/", "b", "l", "o", "s", "s", "o", "m", "_", "a", "n", "a", "l", "y", "s", "i", "s", ".", "j", "p", "g">>,
                brand_color |-> <<"#", "F", "F", "F", "F", "F", "F">>,
                org_url    |-> <<"h", "t", "t", "p", "s", ":", "/", "/", "b", "l", "o", "s", "s", "o", "m", "a", "n", "a", "l", "y", "s", "i", "s", ".", "c", "o", "m">>]
          [] r = "kb2" ->
               [id         |-> <<"f", "7", "3", "b", "b", "e", "f", "9", "-", "e", "a", "3", "b", "-", "4", "f", "7", "8", "-", "9", "5", "6", "d", "-", "b", "5", "f", "c", "3", "8", "d", "e", "7", "6", "9", "9">>,
                name       |-> <<"L", "u", "c", "i", "d", " ", "N", "e", "w", "s">>,
                icon_url   |-> <<"i", "m", "a", "g", "e", "s", "/", "l", "o", "g", "o", "s", "/", "l", "u", "c", "i", "d", "_", "n", "e", "w", "s", ".", "j", "p", "g">>,
                brand_color |-> <<"#", "2", "7", "1", "2", "B", "D">>,
                org_url    |-> <<"h", "t", "t", "p", "s", ":", "/", "/", "l", "u", "c", "i", "d", "n", "e", "w", "s", ".", "c", "o", "m">>]
          [] r = "kb3" ->
               [id         |-> <<"f", "8", "8", "d", "9", "d", "4", "5", "-", "f", "2", "5", "e", "-", "4", "0", "5", "1", "-", "8", "a", "8", "4", "-", "a", "8", "d", "7", "8", "7", "3", "6", "2", "2", "b", "8">>,
                name       |-> <<"M", "A", "P", "S">>,
                icon_url   |-> <<"i", "m", "a", "g", "e", "s", "/", "l", "o", "g", "o", "s", "/", "m", "a", "p", "s", ".", "j", "p", "g">>,
                brand_color |-> <<"#", "2", "7", "1", "2", "B", "D">>,
                org_url    |-> <<"h", "t", "t", "p", "s", ":", "/", "/", "m", "a", "p", "s", ".", "o", "r", "g">>]
          [] r = "kb4" ->
               [id         |-> <<"5", "f", "6", "e", "1", "e", "a", "5", "-", "1", "f", "3", "f", "-", "4", "3", "1", "a", "-", "8", "7", "5", "9", "-", "b", "6", "6", "8", "1", "0", "5", "8", "2", "b", "7", "3">>,
                name       |-> <<"P", "s", "y", "c", "h", "e", "d", "e", "l", "i", "c", " ", "A", "l", "p", "h", "a">>,
                icon_url   |-> <<"i", "m", "a", "g", "e", "s", "/", "l", "o", "g", "o", "s", "/", "p", "s", "y", "c", "h", "e", "d", "e", "l", "i", "c", "_", "a", "l", "p", "h", "a", ".", "j", "p", "g">>,
                brand_color |-> <<"#", "C", "F", "C", "9", "E", "5">>,
                org_url    |-> <<"h", "t", "t", "p", "s", ":", "/", "/", "p", "s", "y", "c", "h", "e", "d", "e", "l", "i", "c", "a", "l", "p", "h", "a", ".", "c", "o", "m">>]
          [] r = "kb5" ->
               [id         |-> <<"c", "3", "4", "b", "c", "3", "d", "a", "-", "d", "4", "6", "6", "-", "4", "a", "2", "d", "-", "9", "4", "c", "3", "-", "2", "e", "6", "f", "f", "f", "b", "e", "6", "d", "1", "d">>,
                name       |-> <<"P", "s", "y", "c", "h", "e", "d", "e", "l", "i", "c", "s", " ", "T", "o", "d", "a", "y">>,
                icon_url   |-> <<"i", "m", "a", "g", "e", "s", "/", "l", "o", "g", "o", "s", "/", "p", "s", "y", "c", "h", "e", "d", "e", "l", "i", "c", "s", "_", "t", "o", "d", "a", "y", ".", "j", "p", "g">>,
                brand_color |-> <<"#", "F", "F", "F", "F", "F", "F">>,
                org_url    |-> <<"h", "t", "t", "p", "s", ":", "/", "/", "p", "s", "y", "c", "h", "e", "d", "e", "l", "i", "c", "t", "o", "d", "a", "y", ".", "c", "o", "m">>]]

\* the list literal: the five objects in definition order
InitialList == <<"kb1", "kb2", "kb3", "kb4", "kb5">>

\* a variant that keys the dict by the name as written: kb.name
BuildByName_case_kept(h, kbs) ==
    LET key(i) == h[kbs[i]].name
    IN  [k \in {key(i) : i \in 1..Len(kbs)} |->
            kbs[CHOOSE i \in 1..Len(kbs) :
                   key(i) = k /\ \A j \in 1..Len(kbs) : key(j) = k => j <= i]]

\* {kb.id: kb for kb in KNOWLEDGE_BASES}: of the entries with the same key,
\* the dict keeps the last
BuildById(h, kbs) ==
    LET key(i) == h[kbs[i]].id
    IN  [k \in {key(i) : i \in 1..Len(kbs)} |->
            kbs[CHOOSE i \in 1..Len(kbs) :
                   key(i) = k /\ \A j \in 1..Len(kbs) : key(j) = k => j <= i]]

\* {kb.name.lower(): kb for kb in KNOWLEDGE_BASES}
BuildByName(h, kbs) ==
    LET key(i) == lower(h[kbs[i]].name)
    IN  [k \in {key(i) : i \in 1..Len(kbs)} |->
            kbs[CHOOSE i \in 1..Len(kbs) :
                   key(i) = k /\ \A j \in 1..Len(kbs) : key(j) = k => j <= i]]

get_knowledge_base_by_id(kb_id) == dict_get(KNOWLEDGE_BASES_BY_ID, kb_id)

get_knowledge_base_by_name(name) == dict_get(KNOWLEDGE_BASES_BY_NAME, lower(name))

\* list.copy(): a new list holding the same objects
list_available_knowledge_bases == KNOWLEDGE_BASES

\* [kb.id for kb in KNOWLEDGE_BASES]
AllIds == [i \in 1..Len(KNOWLEDGE_BASES) |-> heap[KNOWLEDGE_BASES[i]].id]

\* the printed warning line
Warning(item) ==
    <<"WARNING SIGN", "VARIATION SELECTOR-16", " ", " ">> \o <<"W", "a", "r", "n", "i", "n", "g", ":", " ", "K", "n", "o", "w", "l", "e", "d", "g", "e", " ", "b", "a", "s", "e", " ", "'">> \o item \o <<"'", " ", "n", "o", "t", " ", "f", "o", "u", "n", "d">>

\* a variant that tests only for the empty string: selection == ""
IsEmptySelection_empty_str_only(selection) == selection.t = "str" /\ selection.v = <<>>

\* not selection
IsEmptySelection(selection) == ~Truthy(selection)

\* a variant that compares without lowercasing: selection == "all"
IsAllKeyword_case_sensitive(s) == s = <<"a", "l", "l">>

\* selection.lower() == "all"
IsAllKeyword(s) == lower(s) = <<"a", "l", "l">>

RECURSIVE StripNonEmpty(_)
StripNonEmpty(pieces) ==
    IF pieces = <<>> THEN <<>>
    ELSE (IF strip(Head(pieces)) # <<>> THEN <<strip(Head(pieces))>> ELSE <<>>)
         \o StripNonEmpty(Tail(pieces))

\* items without the repetitions of an earlier item
RECURSIVE Dedup(_)
Dedup(items) ==
    IF items = <<>> THEN <<>>
    ELSE LET init == SubSeq(items, 1, Len(items) - 1)
             last == items[Len(items)]
         IN  IF \E i \in 1..Len(init) : init[i] = last
             THEN Dedup(init)
             ELSE Append(Dedup(init), last)

\* a variant that drops the pieces that repeat an earlier one
SelectionItems_deduplicated(s) == Dedup(StripNonEmpty(split(s, ",")))

\* [item.strip() for item in selection.split(",") if item.strip()]
SelectionItems(s) == StripNonEmpty(split(s, ","))

\* a variant with the length off by one
IsIdShaped_35(item) == Len(item) = 35 /\ count(item, "-") = 4

\* len(item) == 36 and item.count('-') == 4
IsIdShaped(item) == Len(item) = 36 /\ count(item, "-") = 4

\* a variant that looks an id-shaped item up and drops it when absent
ResolveItem_validating(item) ==
    IF IsIdShaped(item)
    THEN [ids     |-> IF get_knowledge_base_by_id(item) # None THEN <<item>> ELSE <<>>,
          printed |-> <<>>]
    ELSE LET kb == get_knowledge_base_by_name(item)
         IN  IF kb # None
             THEN [ids |-> <<heap[kb].id>>, printed |-> <<>>]
             ELSE [ids |-> <<>>, printed |-> <<Warning(item)>>]

\* a variant that drops an unknown name without a warning
ResolveItem_silent(item) ==
    IF IsIdShaped(item)
    THEN [ids |-> <<item>>, printed |-> <<>>]
    ELSE LET kb == get_knowledge_base_by_name(item)
         IN  IF kb # None
             THEN [ids |-> <<heap[kb].id>>, printed |-> <<>>]
             ELSE [ids |-> <<>>, printed |-> <<>>]

\* a variant that appends the name of the entry found: kb.name
ResolveItem_appends_name(item) ==
    IF IsIdShaped(item)
    THEN [ids |-> <<item>>, printed |-> <<>>]
    ELSE LET kb == get_knowledge_base_by_name(item)
         IN  IF kb # None
             THEN [ids |-> <<heap[kb].name>>, printed |-> <<>>]
             ELSE [ids |-> <<>>, printed |-> <<Warning(item)>>]

\* the body of the loop over items: what one item appends to ids and prints
ResolveItem(item) ==
    IF IsIdShaped(item)
    THEN [ids |-> <<item>>, printed |-> <<>>]
    ELSE LET kb == get_knowledge_base_by_name(item)
         IN  IF kb # None
             THEN [ids |-> <<heap[kb].id>>, printed |-> <<>>]
             ELSE [ids |-> <<>>, printed |-> <<Warning(item)>>]

\* for item in items: ...
RECURSIVE ResolveItems(_, _, _)
ResolveItems(items, ids, printed) ==
    IF items = <<>> THEN [ids |-> ids, printed |-> printed]
    ELSE LET r == ResolveItem(Head(items))
         IN  ResolveItems(Tail(items), ids \o r.ids, printed \o r.printed)

\* the outcome of a call: the exception raised ("" for none), the value
\* returned and the lines printed
Outcome(exc, value, printed) == [raised |-> exc, ret |-> value, printed |-> printed]

parse_knowledge_base_selection(selection) ==
    IF IsEmptySelection(selection) THEN Outcome("", <<>>, <<>>)
    ELSE IF selection.t # "str"
    THEN Outcome("AttributeError", None, <<>>)   \* None has no lower()
    ELSE IF IsAllKeyword(selection.v) THEN Outcome("", AllIds, <<>>)
    ELSE LET r == ResolveItems(SelectionItems(selection.v), <<>>, <<>>)
         IN  Outcome("", r.ids, r.printed)

\* one name of get_knowledge_base_ids_by_names: the id it appends, if any
RECURSIVE get_knowledge_base_ids_by_names(_)
get_knowledge_base_ids_by_names(names) ==
    IF names = <<>> THEN <<>>
    ELSE LET kb == get_knowledge_base_by_name(Head(names))
         IN  (IF kb # None THEN <<heap[kb].id>> ELSE <<>>)
             \o get_knowledge_base_ids_by_names(Tail(names))

Digit(i) == <<"0", "1", "2", "3", "4", "5", "6", "7", "8", "9">>[i + 1]

\* the four lines printed for the i-th entry
EntryLines(i) ==
    LET kb == heap[KNOWLEDGE_BASES[i]]
    IN  << <<Digit(i)>> \o <<".", " ">> \o kb.name,
           <<" ", " ", " ", "I", "D", ":", " ">> \o kb.id,
           <<" ", " ", " ", "U", "R", "L", ":", " ">> \o kb.org_url,
           <<>> >>

RECURSIVE AllEntryLines(_)
AllEntryLines(i) ==
    IF i > Len(KNOWLEDGE_BASES) THEN <<>>
    ELSE EntryLines(i) \o AllEntryLines(i + 1)

print_available_knowledge_bases ==
    << <<"BOOKS">> \o <<" ", "A", "v", "a", "i", "l", "a", "b", "l", "e", " ", "K", "n", "o", "w", "l", "e", "d", "g", "e", " ", "B", "a", "s", "e", "s", ":">>,
       [i \in 1..50 |-> "-"] >>
    \o AllEntryLines(1)
    \o << <<"LIGHT BULB">> \o <<" ", "U", "s", "a", "g", "e", " ", "e", "x", "a", "m", "p", "l", "e", "s", ":">>,
          <<" ", " ", "B", "y", " ", "n", "a", "m", "e", ":", " ", "-", "k", " ", "\"", "B", "l", "o", "s", "s", "o", "m", " ", "A", "n", "a", "l", "y", "s", "i", "s", ",", "M", "A", "P", "S", "\"">>,
          <<" ", " ", "B", "y", " ", "I", "D", ":", " ", "-", "k", " ", "\"", "8", "b", "e", "6", "d", "f", "d", "9", "-", "e", "c", "a", "f", "-", "4", "e", "2", "b", "-", "8", "4", "1", "4", "-", "0", "1", "a", "e", "c", "b", "6", "7", "e", "1", "4", "7", "\"">>,
          <<" ", " ", "A", "l", "l", ":", " ", "-", "k", " ", "\"", "a", "l", "l", "\"">> >>

---------------------------------------------------------------------------
(* structure.py *)

Providers == { <<"o", "p", "e", "n", "a", "i">>, <<"a", "n", "t", "h", "r", "o", "p", "i", "c">>, <<"g", "o", "o", "g", "l", "e">> }

\* get_config returns the configuration object of the provider, or None
get_config(provider) ==
    IF provider = <<"o", "p", "e", "n", "a", "i">> THEN "OpenAiDriversConfig"
    ELSE IF provider = <<"a", "n", "t", "h", "r", "o", "p", "i", "c">> THEN "AnthropicDriversConfig"
    ELSE IF provider = <<"g", "o", "o", "g", "l", "e">> THEN "GoogleDriversConfig"
    ELSE None

\* the RagTool built for the i-th id (i counts from 0 in the source)
KnowledgeBaseTool(kb_id, position) ==
    LET kb_info == get_knowledge_base_by_id(kb_id)
        kb_name == IF kb_info # None THEN heap[kb_info].name
                   ELSE <<"K", "n", "o", "w", "l", "e", "d", "g", "e", " ", "b", "a", "s", "e", " ", "#">> \o <<Digit(position)>>
        base    == kb_name \o <<":", " ", "C", "o", "n", "t", "a", "i", "n", "s", " ", "s", "p", "e", "c", "i", "a", "l", "i", "z", "e", "d", " ", "i", "n", "f", "o", "r", "m", "a", "t", "i", "o", "n", " ", "a", "n", "d", " ", "d", "o", "c", "u", "m", "e", "n", "t", "s">>
    IN  [knowledge_base_id |-> kb_id,
         description |-> IF kb_info # None
                         THEN base \o <<" ", "f", "r", "o", "m", " ">> \o heap[kb_info].org_url
                         ELSE base]

RECURSIVE KnowledgeBaseToolsFrom(_, _)
KnowledgeBaseToolsFrom(ids, position) ==
    IF position > Len(ids) THEN <<>>
    ELSE (IF ids[position] # <<>> THEN <<KnowledgeBaseTool(ids[position], position)>>
          ELSE <<>>)
         \o KnowledgeBaseToolsFrom(ids, position + 1)

\* what get_knowledge_base_tools returns and prints, given whether
\* GT_CLOUD_API_KEY is set
get_knowledge_base_tools(ids, api_key) ==
    IF ~api_key
    THEN Outcome("", <<>>,
           << <<"WARNING SIGN", "VARIATION SELECTOR-16", " ", " ">>
              \o <<"W", "a", "r", "n", "i", "n", "g", ":", " ", "G", "T", "_", "C", "L", "O", "U", "D", "_", "A", "P", "I", "_", "K", "E", "Y", " ", "n", "o", "t", " ", "f", "o", "u", "n", "d", ".", " ", "K", "n", "o", "w", "l", "e", "d", "g", "e", " ", "b", "a", "s", "e", " ", "q", "u", "e", "r", "i", "e", "s", " ", "w", "i", "l", "l", " ", "f", "a", "i", "l", ".">> >>)
    ELSE Outcome("", KnowledgeBaseToolsFrom(ids, 1), <<>>)

get_rulesets(ruleset_alias) ==
    IF ruleset_alias.t = "NoneType" THEN <<>>
    ELSE <<[name |-> ruleset_alias.v]>>

parse_knowledge_base_ids(kb_ids_str) == parse_knowledge_base_selection(kb_ids_str)

---------------------------------------------------------------------------
(* Inputs *)

\* ",".join(ids)
RECURSIVE JoinComma(_)
JoinComma(ss) ==
    IF ss = <<>> THEN <<>>
    ELSE IF Len(ss) = 1 THEN ss[1]
    ELSE ss[1] \o <<",">> \o JoinComma(Tail(ss))

\* shaped like an id, and the id of no catalog entry
AbsentId == <<"1", "1", "1", "1", "1", "1", "1", "1", "-", "1", "1", "1", "1", "-", "1", "1", "1", "1", "-", "1", "1", "1", "1", "-", "1", "1", "1", "1", "1", "1", "1", "1", "1", "1", "1", "1">>

\* the pieces the selection strings are made of: names in two casings and
\* with whitespace before them, an empty and a blank piece, an id of the
\* catalog with whitespace after it, an id-shaped token absent from the
\* catalog, a name the catalog does not have, the word all, and 36 characters
\* with only 3 hyphens
RawPieces ==
    { <<"B", "l", "o", "s", "s", "o", "m", " ", "A", "n", "a", "l", "y", "s", "i", "s">>,
      <<" ", "m", "a", "p", "s">>,
      <<>>,
      <<" ", "\t">>,
      <<"A", "L", "L">>,
      <<"f", "7", "3", "b", "b", "e", "f", "9", "-", "e", "a", "3", "b", "-", "4", "f", "7", "8", "-", "9", "5", "6", "d", "-", "b", "5", "f", "c", "3", "8", "d", "e", "7", "6", "9", "9", " ">>,
      AbsentId,
      <<"N", "o", "n", "e", "x", "i", "s", "t", "e", "n", "t", " ", "O", "r", "g">>,
      <<"1", "1", "1", "1", "1", "1", "1", "1", "-", "1", "1", "1", "1", "-", "1", "1", "1", "1", "-", "1", "1", "1", "1", "1", "1", "1", "1", "1", "1", "1", "1", "1", "1", "1", "1">> }

AllSpellings ==
    { <<"a", "l", "l">>, <<"A", "L", "L">>, <<"A", "l", "l">>, <<"a", "L", "l">>, <<"a", "l", "L">> }

\* the empty string, empty pieces, the word all as one piece among others or
\* with whitespace around it, 35 characters with 4 hyphens, and 36 characters
\* with 4 hyphens and whitespace among them
SpecialSelections ==
    { <<>>,
      <<"L", "u", "c", "i", "d", " ", "N", "e", "w", "s", ",", ",", "M", "A", "P", "S", ",">>,
      <<" ", "a", "l", "l">>,
      <<"a", "l", "l", ",">>,
      <<"1", "1", "1", "1", "1", "1", "1", "-", "1", "1", "1", "1", "-", "1", "1", "1", "1", "-", "1", "1", "1", "1", "-", "1", "1", "1", "1", "1", "1", "1", "1", "1", "1", "1", "1">>,
      <<"P", "S", "Y", "C", "H", "E", "D", "E", "L", "I", "C", " ", "A", "L", "P", "H", "A", ",", "p", "s", "y", "c", "h", "e", "d", "e", "l", "i", "c", "s", " ", "t", "o", "d", "a", "y">>,
      <<"1", "1", "1", "1", "1", "1", "1", "1", "-", "1", "1", "1", "1", " ", "1", "1", "1", "1", "-", "1", "1", "1", "1", "-", "1", "1", "1", "1", "1", "1", "1", "1", "1", "1", "1", "-">> }

SelectionStrings ==
    { JoinComma(ps) : ps \in UNION { [1..n -> RawPieces] : n \in 1..MaxPieces } }
    \cup AllSpellings
    \cup SpecialSelections

SelectionInputs == { Str(s) : s \in SelectionStrings } \cup { NoneValue }

LookupIds ==
    { InitialHeap[r].id : r \in Refs } \cup { AbsentId, <<>>, <<"M", "A", "P", "S">> }

LookupNames ==
    { InitialHeap[r].name : r \in Refs }
    \cup { lower(InitialHeap[r].name) : r \in Refs }
    \cup { <<"m", "A", "P", "s">>, <<"B", "L", "O", "S", "S", "O", "M", " ", "A", "N", "A", "L", "Y", "S", "I", "S">>, <<"N", "o", "n", "e", "x", "i", "s", "t", "e", "n", "t", " ", "O", "r", "g">>, <<>>,
           <<" ", "M", "A", "P", "S">>, <<"f", "8", "8", "d", "9", "d", "4", "5", "-", "f", "2", "5", "e", "-", "4", "0", "5", "1", "-", "8", "a", "8", "4", "-", "a", "8", "d", "7", "8", "7", "3", "6", "2", "2", "b", "8">> }

Idle == [op |-> "idle"]

---------------------------------------------------------------------------
(* The catalog as a caller uses it, one call at a time *)

\* the state once knowledge_bases.py is imported
InitCatalog ==
    /\ heap = InitialHeap
    /\ KNOWLEDGE_BASES = InitialList
    /\ KNOWLEDGE_BASES_BY_ID = BuildById(InitialHeap, InitialList)
    /\ KNOWLEDGE_BASES_BY_NAME = BuildByName(InitialHeap, InitialList)

InitCall ==
    /\ call = Idle
    /\ ret = None
    /\ raised = ""
    /\ stdout = <<>>
    /\ ncaller = 0

InitMainIdle ==
    /\ pc = "not started"
    /\ args = <<>>
    /\ knowledge_base_ids = <<>>
    /\ events = <<>>
    /\ exit_code = -1

Init == InitCatalog /\ InitCall /\ InitMainIdle

\* a set of inputs is given to each call, so that the caller spec below can
\* make the same calls with fewer inputs
CallGetById(ids) ==
    /\ call = Idle
    /\ \E kb_id \in ids :
          /\ call' = [op |-> "get_knowledge_base_by_id", arg |-> kb_id]
          /\ ret' = get_knowledge_base_by_id(kb_id)
    /\ UNCHANGED <<raised, stdout, ncaller, catalogVars, mainVars>>

CallGetByName(names) ==
    /\ call = Idle
    /\ \E name \in names :
          /\ call' = [op |-> "get_knowledge_base_by_name", arg |-> name]
          /\ ret' = get_knowledge_base_by_name(name)
    /\ UNCHANGED <<raised, stdout, ncaller, catalogVars, mainVars>>

CallList ==
    /\ call = Idle
    /\ call' = [op |-> "list_available_knowledge_bases"]
    /\ ret' = list_available_knowledge_bases
    /\ UNCHANGED <<raised, stdout, ncaller, catalogVars, mainVars>>

CallParse(selections) ==
    /\ call = Idle
    /\ \E selection \in selections :
          LET o == parse_knowledge_base_selection(selection)
          IN  /\ call' = [op |-> "parse_knowledge_base_selection", arg |-> selection]
              /\ ret' = o.ret
              /\ raised' = o.raised
              /\ stdout' = o.printed
    /\ UNCHANGED <<ncaller, catalogVars, mainVars>>

\* the ids a resolution returned, joined with commas, are resolved again
CallParseAgain ==
    /\ call.op = "parse_knowledge_base_selection"
    /\ raised = ""
    /\ LET again == Str(JoinComma(ret))
           o     == parse_knowledge_base_ids(again)
       IN  /\ call' = [op |-> "parse_knowledge_base_ids", arg |-> again,
                       first |-> call.arg, first_ret |-> ret]
           /\ ret' = o.ret
           /\ raised' = o.raised
           /\ stdout' = o.printed
    /\ UNCHANGED <<ncaller, catalogVars, mainVars>>

CallIdsByNames ==
    /\ call = Idle
    /\ \E names \in [1..2 -> LookupNames] :
          /\ call' = [op |-> "get_knowledge_base_ids_by_names", arg |-> names]
          /\ ret' = get_knowledge_base_ids_by_names(names)
    /\ UNCHANGED <<raised, stdout, ncaller, catalogVars, mainVars>>

CallPrint ==
    /\ call = Idle
    /\ call' = [op |-> "print_available_knowledge_bases"]
    /\ ret' = None
    /\ stdout' = print_available_knowledge_bases
    /\ UNCHANGED <<raised, ncaller, catalogVars, mainVars>>

\* the caller is done with the result and is ready for its next call
Done ==
    /\ call # Idle
    /\ call' = Idle
    /\ ret' = None
    /\ raised' = ""
    /\ stdout' = <<>>
    /\ UNCHANGED <<ncaller, catalogVars, mainVars>>

Next ==
    \/ CallGetById(LookupIds)
    \/ CallGetByName(LookupNames)
    \/ CallList
    \/ CallParse(SelectionInputs)
    \/ CallParseAgain
    \/ CallIdsByNames
    \/ CallPrint
    \/ Done

Spec == Init /\ [][Next]_vars

---------------------------------------------------------------------------
(* A caller that changes what list_available_knowledge_bases returned.      *)
(* The returned list is a new list (changes to the list itself stay in      *)
(* ret), holding the same objects as KNOWLEDGE_BASES (a change to a field   *)
(* of one of them is a change to the heap).                                 *)

FieldNames == {"id", "name", "icon_url", "brand_color", "org_url"}

\* the value the caller writes into a field
CallerValues == { <<"c", "h", "a", "n", "g", "e", "d">> }

HoldsList == call.op = "list_available_knowledge_bases" /\ ncaller < MaxCallerOps

\* returned.append(kb)
CallerAppend ==
    /\ HoldsList
    /\ \E r \in Refs : ret' = Append(ret, r)
    /\ ncaller' = ncaller + 1
    /\ UNCHANGED <<call, raised, stdout, catalogVars, mainVars>>

\* del returned[i]
CallerRemove ==
    /\ HoldsList
    /\ \E i \in 1..Len(ret) :
          ret' = SubSeq(ret, 1, i - 1) \o SubSeq(ret, i + 1, Len(ret))
    /\ ncaller' = ncaller + 1
    /\ UNCHANGED <<call, raised, stdout, catalogVars, mainVars>>

\* returned[i], returned[j] = returned[j], returned[i]
CallerSwap ==
    /\ HoldsList
    /\ \E i \in 1..Len(ret), j \in 1..Len(ret) :
          /\ i < j
          /\ ret' = [ret EXCEPT ![i] = ret[j], ![j] = ret[i]]
    /\ ncaller' = ncaller + 1
    /\ UNCHANGED <<call, raised, stdout, catalogVars, mainVars>>

\* setattr(returned[i], f, v): KnowledgeBase is a dataclass that is not frozen
CallerSetField ==
    /\ HoldsList
    /\ \E i \in 1..Len(ret), f \in FieldNames, v \in CallerValues :
          /\ heap[ret[i]][f] # v
          /\ heap' = [heap EXCEPT ![ret[i]][f] = v]
    /\ ncaller' = ncaller + 1
    /\ UNCHANGED <<call, ret, raised, stdout, KNOWLEDGE_BASES, KNOWLEDGE_BASES_BY_ID,
                   KNOWLEDGE_BASES_BY_NAME, mainVars>>

CallerSelections ==
    { Str(<<"a", "l", "l">>), Str(<<"B", "l", "o", "s", "s", "o", "m", " ", "A", "n", "a", "l", "y", "s", "i", "s", ",", " ", "m", "a", "p", "s">>), Str(<<"c", "h", "a", "n", "g", "e", "d">>) }

NextCaller ==
    \/ CallList
    \/ CallerAppend
    \/ CallerRemove
    \/ CallerSwap
    \/ CallerSetField
    \/ CallGetById(LookupIds \cup CallerValues)
    \/ CallGetByName(LookupNames \cup CallerValues)
    \/ CallParse(CallerSelections)
    \/ Done

SpecCaller == Init /\ [][NextCaller]_vars

---------------------------------------------------------------------------
(* The __main__ block of structure.py *)

\* the command lines: -h, -p, -k, --list-kb, -r and -t as given (or their
\* defaults), and whether GT_CLOUD_API_KEY is set in the environment
CommandLines ==
    [help               : BOOLEAN,
     provider           : Providers \cup { <<"a", "z", "u", "r", "e">> },
     knowledge_base_ids : { Str(<<>>), Str(<<"a", "l", "l">>),
                            Str(<<"N", "o", "n", "e", "x", "i", "s", "t", "e", "n", "t", " ", "O", "r", "g", ",", " ", "m", "a", "p", "s">>), Str(AbsentId) },
     list_kb            : BOOLEAN,
     ruleset_alias      : { NoneValue, Str(<<"r", "u", "l", "e", "s">>) },
     thread_id          : { NoneValue, Str(<<"t", "h", "r", "e", "a", "d">>) },
     api_key            : BOOLEAN]

InitMain ==
    /\ InitCatalog
    /\ InitCall
    /\ pc = "parse_args"
    /\ args \in CommandLines
    /\ knowledge_base_ids = <<>>
    /\ events = <<>>
    /\ exit_code = -1

\* parser.parse_args(): -h prints the help and exits with 0; a provider that
\* is not one of the choices is an error, and exits with 2
MainParseArgs ==
    /\ pc = "parse_args"
    /\ IF args.help
       THEN /\ pc' = "exited"
            /\ exit_code' = 0
            /\ stdout' = Append(stdout, <<"u", "s", "a", "g", "e">>)
       ELSE IF args.provider \notin Providers
       THEN /\ pc' = "exited"
            /\ exit_code' = 2
            /\ UNCHANGED stdout
       ELSE /\ pc' = "list_kb"
            /\ UNCHANGED <<exit_code, stdout>>
    /\ UNCHANGED <<args, knowledge_base_ids, events, call, ret, raised, ncaller,
                   catalogVars>>

\* a variant that prints the catalog and goes on instead of exiting
MainListKb_no_exit ==
    /\ pc = "list_kb"
    /\ IF args.list_kb
       THEN /\ stdout' = stdout \o print_available_knowledge_bases
            /\ pc' = "parse_knowledge_base_ids"
       ELSE /\ pc' = "parse_knowledge_base_ids"
            /\ UNCHANGED stdout
    /\ UNCHANGED <<exit_code, args, knowledge_base_ids, events, call, ret, raised,
                   ncaller, catalogVars>>

\* if args.list_kb: print_available_knowledge_bases(); sys.exit(0)
MainListKb ==
    /\ pc = "list_kb"
    /\ IF args.list_kb
       THEN /\ stdout' = stdout \o print_available_knowledge_bases
            /\ exit_code' = 0
            /\ pc' = "exited"
       ELSE /\ pc' = "parse_knowledge_base_ids"
            /\ UNCHANGED <<stdout, exit_code>>
    /\ UNCHANGED <<args, knowledge_base_ids, events, call, ret, raised, ncaller,
                   catalogVars>>

\* knowledge_base_ids = parse_knowledge_base_ids(args.knowledge_base_ids)
MainParseIds ==
    /\ pc = "parse_knowledge_base_ids"
    /\ LET o == parse_knowledge_base_ids(args.knowledge_base_ids)
       IN  /\ knowledge_base_ids' = o.ret
           /\ stdout' = stdout \o o.printed
           /\ events' = Append(events, [op |-> "parse_knowledge_base_ids"])
    /\ pc' = "get_config"
    /\ UNCHANGED <<exit_code, args, call, ret, raised, ncaller, catalogVars>>

\* Defaults.drivers_config = get_config(provider)
MainGetConfig ==
    /\ pc = "get_config"
    /\ events' = Append(events, [op |-> "get_config", config |-> get_config(args.provider)])
    /\ pc' = "conversation_memory"
    /\ UNCHANGED <<exit_code, stdout, args, knowledge_base_ids, call, ret, raised,
                   ncaller, catalogVars>>

\* if thread_id: ... = GriptapeCloudConversationMemoryDriver(thread_id=thread_id)
MainConversationMemory ==
    /\ pc = "conversation_memory"
    /\ IF Truthy(args.thread_id)
       THEN events' = Append(events, [op |-> "GriptapeCloudConversationMemoryDriver",
                                      thread_id |-> args.thread_id.v])
       ELSE UNCHANGED events
    /\ pc' = "Agent"
    /\ UNCHANGED <<exit_code, stdout, args, knowledge_base_ids, call, ret, raised,
                   ncaller, catalogVars>>

\* agent = Agent(rulesets=get_rulesets(...), tools=get_knowledge_base_tools(...), ...)
MainAgent ==
    /\ pc = "Agent"
    /\ LET rulesets == get_rulesets(args.ruleset_alias)
           tools    == get_knowledge_base_tools(knowledge_base_ids, args.api_key)
       IN  /\ stdout' = stdout \o tools.printed
           /\ events' = events \o
                 << [op |-> "get_rulesets", rulesets |-> rulesets],
                    [op |-> "get_knowledge_base_tools", tools |-> tools.ret],
                    [op |-> "Agent", rulesets |-> rulesets, tools |-> tools.ret] >>
    /\ pc' = "run"
    /\ UNCHANGED <<exit_code, args, knowledge_base_ids, call, ret, raised, ncaller,
                   catalogVars>>

\* the line printed for one id of knowledge_base_ids, if it is a catalog id
RECURSIVE LoadedLines(_)
LoadedLines(ids) ==
    IF ids = <<>> THEN <<>>
    ELSE LET kb == get_knowledge_base_by_id(Head(ids))
         IN  (IF kb # None
              THEN << <<" ", " ", "-", " ">> \o heap[kb].name \o <<" ", "\\", "(">> \o Head(ids) \o <<")">> >>
              ELSE <<>>)
             \o LoadedLines(Tail(ids))

\* the with block: the lines printed when knowledge_base_ids is not empty, then
\* agent.run(query); the script then ends
MainRun ==
    /\ pc = "run"
    /\ stdout' = stdout \o
          (IF knowledge_base_ids # <<>>
           THEN << <<"U", "s", "i", "n", "g", " ", "m", "o", "d", "e", "l", " ", "p", "r", "o", "v", "i", "d", "e", "r", ":", " ">> \o args.provider,
                   <<"K", "n", "o", "w", "l", "e", "d", "g", "e", " ", "b", "a", "s", "e", "s", " ", "l", "o", "a", "d", "e", "d", ":">> >>
                \o LoadedLines(knowledge_base_ids)
                \o (IF Truthy(args.thread_id)
                    THEN << <<"U", "s", "i", "n", "g", " ", "c", "o", "n", "v", "e", "r", "s", "a", "t", "i", "o", "n", " ", "m", "e", "m", "o", "r", "y", " ", "w", "i", "t", "h", " ", "t", "h", "r", "e", "a", "d", ":", " ">> \o args.thread_id.v >>
                    ELSE <<>>)
           ELSE <<>>)
    /\ events' = Append(events, [op |-> "agent.run"])
    /\ pc' = "exited"
    /\ exit_code' = 0
    /\ UNCHANGED <<args, knowledge_base_ids, call, ret, raised, ncaller, catalogVars>>

NextMain ==
    \/ MainParseArgs
    \/ MainListKb
    \/ MainParseIds
    \/ MainGetConfig
    \/ MainConversationMemory
    \/ MainAgent
    \/ MainRun

SpecMain == InitMain /\ [][NextMain]_vars

---------------------------------------------------------------------------
(* Properties.  What the catalog and a resolution should be is stated here  *)
(* on its own terms: the catalog as a literal, casing by pairs of letters,  *)
(* and the pieces of a selection by the positions of its commas.            *)

ExpectedCatalog ==
    << [name |-> <<"B", "l", "o", "s", "s", "o", "m", " ", "A", "n", "a", "l", "y", "s", "i", "s">>,   id |-> <<"8", "b", "e", "6", "d", "f", "d", "9", "-", "e", "c", "a", "f", "-", "4", "e", "2", "b", "-", "8", "4", "1", "4", "-", "0", "1", "a", "e", "c", "b", "6", "7", "e", "1", "4", "7">>],
       [name |-> <<"L", "u", "c", "i", "d", " ", "N", "e", "w", "s">>,         id |-> <<"f", "7", "3", "b", "b", "e", "f", "9", "-", "e", "a", "3", "b", "-", "4", "f", "7", "8", "-", "9", "5", "6", "d", "-", "b", "5", "f", "c", "3", "8", "d", "e", "7", "6", "9", "9">>],
       [name |-> <<"M", "A", "P", "S">>,               id |-> <<"f", "8", "8", "d", "9", "d", "4", "5", "-", "f", "2", "5", "e", "-", "4", "0", "5", "1", "-", "8", "a", "8", "4", "-", "a", "8", "d", "7", "8", "7", "3", "6", "2", "2", "b", "8">>],
       [name |-> <<"P", "s", "y", "c", "h", "e", "d", "e", "l", "i", "c", " ", "A", "l", "p", "h", "a">>,  id |-> <<"5", "f", "6", "e", "1", "e", "a", "5", "-", "1", "f", "3", "f", "-", "4", "3", "1", "a", "-", "8", "7", "5", "9", "-", "b", "6", "6", "8", "1", "0", "5", "8", "2", "b", "7", "3">>],
       [name |-> <<"P", "s", "y", "c", "h", "e", "d", "e", "l", "i", "c", "s", " ", "T", "o", "d", "a", "y">>, id |-> <<"c", "3", "4", "b", "c", "3", "d", "a", "-", "d", "4", "6", "6", "-", "4", "a", "2", "d", "-", "9", "4", "c", "3", "-", "2", "e", "6", "f", "f", "f", "b", "e", "6", "d", "1", "d">>] >>

ExpectedIdsOfAll == [i \in 1..Len(ExpectedCatalog) |-> ExpectedCatalog[i].id]

IdBlossom == ExpectedCatalog[1].id

IdMaps == ExpectedCatalog[3].id

IsParse == call.op = "parse_knowledge_base_selection"

\* a parse of a string (not of None)
IsParseOfStr == IsParse /\ call.arg.t = "str"

\* the word all, each letter in either case
SpelledAll(s) ==
    /\ Len(s) = 3
    /\ s[1] \in {"a", "A"}
    /\ s[2] \in {"l", "L"}
    /\ s[3] \in {"l", "L"}

SameLetter(a, b) ==
    \/ a = b
    \/ \E k \in 1..Len(UpperChars) : {a, b} = {UpperChars[k], LowerChars[k]}

SameIgnoringCase(a, b) ==
    /\ Len(a) = Len(b)
    /\ \A i \in 1..Len(a) : SameLetter(a[i], b[i])

\* 36 characters, 4 of them hyphens
Shaped(p) == Len(p) = 36 /\ Cardinality({i \in 1..Len(p) : p[i] = "-"}) = 4

\* the positions that bound the pieces of s: before its first character, its
\* commas, and after its last character
Cuts(s) == {0} \cup {i \in 1..Len(s) : s[i] = ","} \cup {Len(s) + 1}

\* p without the whitespace around it
Trim(p) ==
    LET keep == {i \in 1..Len(p) : p[i] # " " /\ p[i] # "\t"}
    IN  IF keep = {} THEN <<>>
        ELSE SubSeq(p, CHOOSE i \in keep : (i - 1) \notin keep /\ \A j \in keep : i <= j,
                       CHOOSE i \in keep : (i + 1) \notin keep /\ \A j \in keep : j <= i)

\* the pieces of s between its commas, each trimmed
Pieces(s) ==
    LET cuts   == Cuts(s)
        nth(k) == CHOOSE c \in cuts : Cardinality({d \in cuts : d < c}) = k - 1
    IN  [k \in 1..(Cardinality(cuts) - 1) |->
            Trim(SubSeq(s, nth(k) + 1, nth(k + 1) - 1))]

\* the ids a trimmed piece stands for: itself when it is shaped like an id,
\* else the id of the catalog entry of that name, if there is one
IdsOf(p) ==
    IF Shaped(p) THEN {p}
    ELSE { ExpectedCatalog[i].id :
             i \in {j \in 1..Len(ExpectedCatalog) :
                        SameIgnoringCase(ExpectedCatalog[j].name, p)} }

\* among the pieces ps, those that stand for an id
Resolved(ps) == {k \in DOMAIN ps : IdsOf(ps[k]) # {}}

\* among the pieces ps, those that are not empty, are not shaped like an id,
\* and name no catalog entry
Unresolved(ps) ==
    {k \in DOMAIN ps : ps[k] # <<>> /\ ~Shaped(ps[k]) /\ IdsOf(ps[k]) = {}}

\* the ids of the pieces that stand for one, in the order of the pieces
ExpectedIds(ps) ==
    LET K == Resolved(ps)
        nth(m) == CHOOSE k \in K : Cardinality({j \in K : j < k}) = m - 1
    IN  [m \in 1..Cardinality(K) |-> CHOOSE x \in IdsOf(ps[nth(m)]) : TRUE]

Occurrences(seq, x) == Cardinality({i \in 1..Len(seq) : seq[i] = x})

\* line holds the text t
Contains(line, t) ==
    \E i \in 1..(Len(line) - Len(t) + 1) : SubSeq(line, i, i + Len(t) - 1) = t

\* C1: a selection that is the word all, in any casing, resolves to every
\* catalog id in catalog order, as many as the catalog has entries
C1_AllKeyword ==
    (IsParseOfStr /\ SpelledAll(call.arg.v)) =>
        /\ raised = ""
        /\ ret = ExpectedIdsOfAll
        /\ Len(ret) = Len(KNOWLEDGE_BASES)

C1_Witness ==
    /\ IsParseOfStr
    /\ call.arg.v = <<"a", "L", "l">>
    /\ ret = ExpectedIdsOfAll

\* C2: a selection other than the wildcard resolves to the ids of its
\* comma-separated, trimmed, non-empty pieces, in the order of the pieces,
\* names matched without regard to case and repeated pieces kept
C2_PiecesInOrder ==
    (IsParseOfStr /\ ~SpelledAll(call.arg.v)) =>
        LET ps == Pieces(call.arg.v)
        IN  /\ raised = ""
            /\ ret = ExpectedIds(ps)
            /\ \A k \in Resolved(ps) :
                  \A x \in IdsOf(ps[k]) :
                     Occurrences(ret, x) >= Occurrences(ps, ps[k])

C2_Witness ==
    /\ IsParseOfStr
    /\ call.arg.v = <<" ", "m", "a", "p", "s", ",", "B", "l", "o", "s", "s", "o", "m", " ", "A", "n", "a", "l", "y", "s", "i", "s", ",", " ", "m", "a", "p", "s">>
    /\ ret = <<IdMaps, IdBlossom, IdMaps>>

\* C3: a piece of 36 characters with 4 hyphens is in the result as it is,
\* whether or not the catalog has it, and no warning mentions it
C3_IdShapedPassThrough ==
    (IsParseOfStr /\ ~SpelledAll(call.arg.v)) =>
        LET ps == Pieces(call.arg.v)
        IN  \A k \in DOMAIN ps :
                Shaped(ps[k]) =>
                  /\ Occurrences(ret, ps[k]) >= Occurrences(ps, ps[k])
                  /\ \A l \in 1..Len(stdout) : ~Contains(stdout[l], ps[k])

C3_Witness ==
    /\ IsParseOfStr
    /\ call.arg.v = <<"B", "l", "o", "s", "s", "o", "m", " ", "A", "n", "a", "l", "y", "s", "i", "s", ",", "1", "1", "1", "1", "1", "1", "1", "1", "-", "1", "1", "1", "1", "-", "1", "1", "1", "1", "-", "1", "1", "1", "1", "-", "1", "1", "1", "1", "1", "1", "1", "1", "1", "1", "1", "1">>
    /\ \A i \in 1..Len(ExpectedCatalog) : ExpectedCatalog[i].id # AbsentId
    /\ get_knowledge_base_by_id(AbsentId) = None
    /\ ret = <<IdBlossom, AbsentId>>
    /\ stdout = <<>>

\* C4: each name-shaped piece that names no catalog entry is left out of the
\* result and warned about once, there are as many warnings as such pieces,
\* and the ids of the other pieces are all in the result
C4_UnresolvedWarned ==
    (IsParseOfStr /\ ~SpelledAll(call.arg.v)) =>
        LET ps == Pieces(call.arg.v)
        IN  /\ raised = ""
            /\ Len(stdout) = Cardinality(Unresolved(ps))
            /\ \A k \in Unresolved(ps) :
                  /\ Occurrences(ret, ps[k]) = 0
                  /\ Cardinality({l \in 1..Len(stdout) : Contains(stdout[l], ps[k])}) >=
                        Cardinality({j \in Unresolved(ps) : ps[j] = ps[k]})
            /\ \A k \in Resolved(ps) :
                  \A x \in IdsOf(ps[k]) : Occurrences(ret, x) > 0

C4_Witness ==
    /\ IsParseOfStr
    /\ call.arg.v = <<"B", "l", "o", "s", "s", "o", "m", " ", "A", "n", "a", "l", "y", "s", "i", "s", ",", "N", "o", "n", "e", "x", "i", "s", "t", "e", "n", "t", " ", "O", "r", "g", ",", " ", "m", "a", "p", "s">>
    /\ ret = <<IdBlossom, IdMaps>>
    /\ Len(stdout) = 1
    /\ Contains(stdout[1], <<"N", "o", "n", "e", "x", "i", "s", "t", "e", "n", "t", " ", "O", "r", "g">>)

\* C5: a resolution of any string or of None returns a sequence of ids and
\* raises nothing; of the empty string or None it returns the empty sequence
\* and prints nothing
C5_NeverRaises ==
    IsParse =>
        /\ raised = ""
        /\ \A i \in 1..Len(ret) : Len(ret[i]) > 0
        /\ (call.arg.t = "NoneType" \/ call.arg.v = <<>>) =>
              (ret = <<>> /\ stdout = <<>>)

C5_Witness ==
    /\ IsParse
    /\ call.arg = NoneValue
    /\ raised = ""
    /\ ret = <<>>
    /\ stdout = <<>>

\* the record a lookup returned: the fields of the object, or None
Returned == IF ret = None THEN None ELSE [name |-> heap[ret].name, id |-> heap[ret].id]

\* the catalog entry with this id, or None
EntryWithId(kb_id) ==
    IF \E i \in 1..Len(ExpectedCatalog) : ExpectedCatalog[i].id = kb_id
    THEN ExpectedCatalog[CHOOSE i \in 1..Len(ExpectedCatalog) :
                            ExpectedCatalog[i].id = kb_id]
    ELSE None

\* the catalog entry with this name in some casing, or None
EntryWithName(name) ==
    IF \E i \in 1..Len(ExpectedCatalog) : SameIgnoringCase(ExpectedCatalog[i].name, name)
    THEN ExpectedCatalog[CHOOSE i \in 1..Len(ExpectedCatalog) :
                            SameIgnoringCase(ExpectedCatalog[i].name, name)]
    ELSE None

\* the entries of the list, in order
ListedEntries ==
    [i \in 1..Len(KNOWLEDGE_BASES) |->
        [name |-> heap[KNOWLEDGE_BASES[i]].name, id |-> heap[KNOWLEDGE_BASES[i]].id]]

\* C7: the ids are unique, the lowercased names are unique, both indices have
\* one key per entry, and a lookup by id or by name (in any casing) returns
\* the entry of the list for a key the catalog has and None for any other
C7_IndicesAgree ==
    /\ ListedEntries = ExpectedCatalog
    /\ \A i, j \in 1..Len(KNOWLEDGE_BASES) :
          i # j =>
            /\ heap[KNOWLEDGE_BASES[i]].id # heap[KNOWLEDGE_BASES[j]].id
            /\ ~SameIgnoringCase(heap[KNOWLEDGE_BASES[i]].name,
                                 heap[KNOWLEDGE_BASES[j]].name)
    /\ Cardinality(DOMAIN KNOWLEDGE_BASES_BY_ID) = Len(KNOWLEDGE_BASES)
    /\ Cardinality(DOMAIN KNOWLEDGE_BASES_BY_NAME) = Len(KNOWLEDGE_BASES)
    /\ \A i \in 1..Len(KNOWLEDGE_BASES) :
          /\ get_knowledge_base_by_id(heap[KNOWLEDGE_BASES[i]].id) = KNOWLEDGE_BASES[i]
          /\ get_knowledge_base_by_name(heap[KNOWLEDGE_BASES[i]].name) = KNOWLEDGE_BASES[i]
    /\ call.op = "get_knowledge_base_by_id" => Returned = EntryWithId(call.arg)
    /\ call.op = "get_knowledge_base_by_name" => Returned = EntryWithName(call.arg)

C7_Witness ==
    /\ call.op = "get_knowledge_base_by_name"
    /\ call.arg = <<"m", "A", "P", "s">>
    /\ ret = KNOWLEDGE_BASES[3]
    /\ heap[ret].id = IdMaps

\* C9: every element of a resolution's result has 36 characters, 4 of them
\* hyphens; none is the empty string
C9_ResultShaped ==
    ((IsParse \/ call.op = "parse_knowledge_base_ids") /\ raised = "") =>
        \A i \in 1..Len(ret) : Shaped(ret[i]) /\ ret[i] # <<>>

C9_Witness ==
    /\ IsParseOfStr
    /\ call.arg.v = <<"1", "1", "1", "1", "1", "1", "1", "1", "-", "1", "1", "1", "1", "-", "1", "1", "1", "1", "-", "1", "1", "1", "1", "-", "1", "1", "1", "1", "1", "1", "1", "1", "1", "1", "1", "1", ",", " ", "m", "a", "p", "s">>
    /\ ret = <<AbsentId, IdMaps>>
    /\ Shaped(ret[1]) /\ Shaped(ret[2])

\* C10: the result of a resolution, joined with commas and resolved again,
\* is the same sequence, and the second resolution prints no warning
C10_Idempotent ==
    call.op = "parse_knowledge_base_ids" =>
        /\ raised = ""
        /\ ret = call.first_ret
        /\ stdout = <<>>

C10_Witness ==
    /\ call.op = "parse_knowledge_base_ids"
    /\ call.first = Str(<<"N", "o", "n", "e", "x", "i", "s", "t", "e", "n", "t", " ", "O", "r", "g", ",", " ", "m", "a", "p", "s", ",", " ", "m", "a", "p", "s">>)
    /\ call.arg = Str(JoinComma(<<IdMaps, IdMaps>>))
    /\ ret = <<IdMaps, IdMaps>>
    /\ stdout = <<>>

\* C6: whatever a caller does through the list it was given, the catalog is
\* as it was built, and lookups and resolutions return what they did
C6_DefensiveCopy ==
    /\ ListedEntries = ExpectedCatalog
    /\ call.op = "get_knowledge_base_by_id" => Returned = EntryWithId(call.arg)
    /\ call.op = "get_knowledge_base_by_name" => Returned = EntryWithName(call.arg)
    /\ IsParse =>
          ret = IF SpelledAll(call.arg.v) THEN ExpectedIdsOfAll
                ELSE ExpectedIds(Pieces(call.arg.v))

\* the command line is one the argument parser accepts and goes on with
Accepted(a) ==
    /\ ~a.help
    /\ a.provider \in { <<"o", "p", "e", "n", "a", "i">>, <<"a", "n", "t", "h", "r", "o", "p", "i", "c">>, <<"g", "o", "o", "g", "l", "e">> }

\* every catalog entry is on the output, with its name, its id and its URL
CatalogPrinted ==
    \A i \in 1..Len(ExpectedCatalog) :
        /\ \E l \in 1..Len(stdout) : Contains(stdout[l], ExpectedCatalog[i].name)
        /\ \E l \in 1..Len(stdout) : Contains(stdout[l], ExpectedCatalog[i].id)

\* C8 as stated: with --list-kb, whatever the other flags, the script calls
\* none of its collaborators, and ends with the catalog printed and status 0
C8_ListKbAlways ==
    args.list_kb =>
        /\ events = <<>>
        /\ pc = "exited" => (exit_code = 0 /\ CatalogPrinted)

\* C8, amended: with --list-kb the script calls none of its collaborators;
\* on a command line the parser accepts it goes no further than the listing,
\* and ends with the catalog printed and status 0
C8_ListKbWhenAccepted ==
    args.list_kb =>
        /\ events = <<>>
        /\ Accepted(args) =>
              /\ pc \in {"parse_args", "list_kb", "exited"}
              /\ pc = "exited" => (exit_code = 0 /\ CatalogPrinted)

C8_Witness ==
    /\ args.list_kb
    /\ args.provider = <<"a", "n", "t", "h", "r", "o", "p", "i", "c">>
    /\ args.knowledge_base_ids = Str(<<"a", "l", "l">>)
    /\ Truthy(args.thread_id)
    /\ pc = "exited"
    /\ exit_code = 0
    /\ CatalogPrinted
    /\ events = <<>>

====
